---- MODULE Spec2Model ----
(***************************************************************************)
(* A model of the 1brc-go pipeline: map the input, plan line-aligned       *)
(* chunks, scan/parse/aggregate each chunk in its own worker, merge the    *)
(* shard tables, print the summary.                                        *)
(*                                                                         *)
(* Spec      models src/main.go (mmap + manual line handling + byte-sum    *)
(*           interning).                                                   *)
(* SpecScan  models src/1brc/main.go (mmap reader + bufio.Scanner workers).*)
(* SpecChan  models src/unnamed/part_002 (a reader goroutine that sends    *)
(*           batches of lines over an unbuffered channel to the workers);  *)
(*           SpecChanFair is SpecChan under a fair scheduler.              *)
(*                                                                         *)
(* SpecParse models the record parser applied to one line on its own:     *)
(*           the probing splitOnSemi of src/unnamed/part_001 and the two   *)
(*           parseFloat, in float32.                                       *)
(* SpecF32   models the aggregation of one station's records in float32:   *)
(*           the update of worker.run, mergeResults, printRes.             *)
(*                                                                         *)
(* Bytes are their integer codes.  A file is a sequence of bytes; offsets  *)
(* are the source's 0-based offsets.  In Spec and SpecScan a float32       *)
(* temperature is held as the integer number of tenths it denotes (12.3 is *)
(* 123): the decoder's byte arithmetic is kept (uint8 wrap-around), the    *)
(* binary rounding of float32 is not.  SpecParse and SpecF32 hold a        *)
(* float32 as sign, 24-bit significand and exponent and round every        *)
(* operation to nearest, ties to even, as the hardware does.               *)
(***************************************************************************)
EXTENDS Integers, Sequences, FiniteSets

VARIABLES
    arg,         \* the input drawn for a function applied on its own
    ret,         \* what the functions applied to arg have returned so far
    variant,     \* "mmap": src/main.go,  "scan": src/1brc/main.go,
                 \* "chan": src/unnamed/part_002
    firstTable,  \* the final table of an earlier run over the same file
    file,        \* the content of measurements.txt, a sequence of bytes
    numWorkers,  \* runtime.NumCPU()
    pc,          \* position of the main goroutine in main()/run()
    mmapped,     \* "none" | "mapped" | "released": the mapping of the file
    ci,          \* the planner's loop index
    nextStart,   \* the planner's nextStart
    chunks,      \* chunks[i] = [start, end], i in 0..numWorkers-1
    wpc,         \* wpc[i]: position of worker goroutine i
    lineStart,   \* lineStart[i]: worker i's lineStart
    heap,        \* heap[i]: the stats objects worker i allocated, in order
    resultses,   \* resultses[i]: station -> pointer <<worker, index>>
    hashes,      \* hashes[i]: worker i's stationNameHashes, hash -> station
    handled,     \* handled[i]: history of the lines worker i aggregated, each
                 \* [off: its offset in the file, ptr: the stats it updated]
    mi,          \* mergeResults' index into resultses
    final,       \* mergeResults' res: station -> pointer
    output,      \* the bytes written to standard output
    logged,      \* the errors logged with log.Error, the reader's panic message
    exitCode,    \* -1 while running, else the process's exit status
    reader,      \* the reader goroutine of src/unnamed/part_002: [pc, pos, lineBuf]
    lineses,     \* the channel lineses: [closed, sent: history of the sends]
    lines,       \* lines[i]: the batch worker i received last
    wg           \* the counter of the sync.WaitGroup

(* the state of the channel-based variant alone *)
chanState == <<reader, lineses, lines, wg>>

vars == <<arg, ret, chanState, variant, firstTable, file, numWorkers, pc, mmapped, ci, nextStart, chunks,
          wpc, lineStart, heap, resultses, hashes, handled, mi, final, output, logged, exitCode>>

----------------------------------------------------------------------------
(* Bytes *)

NL == 10
SEMI == 59
DOT == 46
MINUS == 45
ZERO == 48
COMMA == 44
EQUALS == 61
SLASH == 47
LBRACE == 123
RBRACE == 125

(* bounds of the model *)
MaxRecords == 3
MaxWorkers == 3

(* The lines the input is drawn from.                                      *)
(*   "a;1.0"  "a;-2.5"  "ab;12.3"  "ba;0.5"    well-formed                 *)
(*   "a;1.23" value outside the grammar,  "a1.0" no separator,  "" empty   *)
Lines ==
    { <<97, 59, 49, 46, 48>>,
      <<97, 59, 45, 50, 46, 53>>,
      <<97, 98, 59, 49, 50, 46, 51>>,
      <<98, 97, 59, 48, 46, 53>>,
      <<97, 59, 49, 46, 50, 51>>,
      <<97, 49, 46, 48>>,
      <<>> }

(* "Hamburg;12.0", "Bulawayo;8.9", "Hamburg;8.0" *)
ExampleLines ==
    << <<72, 97, 109, 98, 117, 114, 103, 59, 49, 50, 46, 48>>,
       <<66, 117, 108, 97, 119, 97, 121, 111, 59, 56, 46, 57>>,
       <<72, 97, 109, 98, 117, 114, 103, 59, 56, 46, 48>> >>

(* "Ürümqi;7.4", "Zagreb;10.7", "Abéché;29.4" in UTF-8 *)
Utf8Lines ==
    << <<195, 156, 114, 195, 188, 109, 113, 105, 59, 55, 46, 52>>,
       <<90, 97, 103, 114, 101, 98, 59, 49, 48, 46, 55>>,
       <<65, 98, 195, 169, 99, 104, 195, 169, 59, 50, 57, 46, 52>> >>

RECURSIVE FileOf(_)
(* the file holding the given lines, each followed by its terminator *)
FileOf(ls) ==
    IF ls = <<>> THEN <<>> ELSE Head(ls) \o <<NL>> \o FileOf(Tail(ls))

LineSeqs == UNION { [1..n -> Lines] : n \in 0..MaxRecords }

Files ==
    { FileOf(ls) : ls \in LineSeqs } \cup { FileOf(ExampleLines), FileOf(Utf8Lines) }

(* 0-based access and Go's half-open slice bs[lo:hi] *)
At(bs, i) == bs[i + 1]
Slice(bs, lo, hi) == SubSeq(bs, lo + 1, hi)

Workers == 0 .. (numWorkers - 1)

----------------------------------------------------------------------------
(* RecordParser, src/main.go *)

U8(x) == x % 256

RECURSIVE IndexOfFrom(_, _, _)
(* the least 0-based i >= from with bs[i] = b, or -1 *)
IndexOfFrom(bs, b, from) ==
    IF from >= Len(bs) THEN -1
    ELSE IF At(bs, from) = b THEN from
    ELSE IndexOfFrom(bs, b, from + 1)

(* worker.splitOnSemi: split at the first ';', panic when there is none *)
splitOnSemi(bs) ==
    LET i == IndexOfFrom(bs, SEMI, 0) IN
    IF i < 0 THEN [panic |-> "no semicolon found"]
    ELSE [panic |-> "", key |-> Slice(bs, 0, i), val |-> Slice(bs, i + 1, Len(bs))]

RECURSIVE stationHash(_)
(* the uint32 sum of the name's bytes (below 2^31 for every name the model
   holds, so the uint32 addition never wraps here) *)
stationHash(name) ==
    IF name = <<>> THEN 0 ELSE Head(name) + stationHash(Tail(name))

(* parseFloat: the value in tenths, or the run-time panic of an index or a
   slice expression out of range.  ip and fracPart are computed in uint8;
   neg, ip and frac are the sign and the two integers of its last line. *)
parseFloat(bs0) ==
    IF Len(bs0) = 0 THEN [panic |-> "index out of range"]
    ELSE
    LET neg == At(bs0, 0) = MINUS
        bs == IF neg THEN Slice(bs0, 1, Len(bs0)) ELSE bs0
        sign == IF neg THEN -1 ELSE 1
    IN  IF Len(bs) < 2 THEN [panic |-> "slice bounds out of range"]
        ELSE
        LET intPart == Slice(bs, 0, Len(bs) - 2)
            fracPart == U8(At(bs, Len(bs) - 1) - ZERO)
        IN  IF Len(intPart) = 0 THEN [panic |-> "index out of range"]
            ELSE
            LET ip == IF Len(intPart) = 2
                      THEN U8(U8(U8(At(intPart, 0) - ZERO) * 10)
                              + U8(At(intPart, 1) - ZERO))
                      ELSE U8(At(intPart, 0) - ZERO)
            IN  [panic |-> "", temp |-> sign * (ip * 10 + fracPart),
                 neg |-> neg, ip |-> ip, frac |-> fracPart]

(* worker.parseLineBytes with the interning map hs: the interned station,
   the temperature and the map afterwards.  The error result is always nil. *)
parseLineBytes(hs, line) ==
    LET sp == splitOnSemi(line) IN
    IF sp.panic # "" THEN [panic |-> sp.panic]
    ELSE
    LET hash == stationHash(sp.key)
        known == hash \in DOMAIN hs
        station == IF known THEN hs[hash] ELSE sp.key
        hs2 == IF known THEN hs ELSE [h \in DOMAIN hs \cup {hash} |->
                                        IF h = hash THEN station ELSE hs[h]]
        pf == parseFloat(sp.val)
    IN  IF pf.panic # "" THEN [panic |-> pf.panic]
        ELSE [panic |-> "", station |-> station, temp |-> pf.temp, hashes |-> hs2]

Min(a, b) == IF a <= b THEN a ELSE b
Max(a, b) == IF a >= b THEN a ELSE b

----------------------------------------------------------------------------
(* Formatter, src/main.go *)

RECURSIVE LexLessSigned(_, _)
(* a comparison that takes a byte as a signed number, 128..255 below 0;
   used to test what the order of the output can tell apart *)
LexLessSigned(a, b) ==
    IF b = <<>> THEN FALSE
    ELSE IF a = <<>> THEN TRUE
    ELSE IF Head(a) # Head(b)
         THEN (IF Head(a) >= 128 THEN Head(a) - 256 ELSE Head(a))
                  < (IF Head(b) >= 128 THEN Head(b) - 256 ELSE Head(b))
    ELSE LexLessSigned(Tail(a), Tail(b))

RECURSIVE LexLess(_, _)
(* a < b as Go compares strings: byte-wise, a proper prefix first *)
LexLess(a, b) ==
    IF b = <<>> THEN FALSE
    ELSE IF a = <<>> THEN TRUE
    ELSE IF Head(a) # Head(b) THEN Head(a) < Head(b)
    ELSE LexLess(Tail(a), Tail(b))

RECURSIVE SortNames(_)
(* slices.Sort(names): the names in ascending order *)
SortNames(S) ==
    IF S = {} THEN <<>>
    ELSE LET least == CHOOSE x \in S : \A y \in S \ {x} : LexLess(x, y)
         IN  <<least>> \o SortNames(S \ {least})

RECURSIVE Digits(_)
(* the decimal digits of n >= 0 *)
Digits(n) ==
    IF n < 10 THEN <<ZERO + n>> ELSE Digits(n \div 10) \o <<ZERO + (n % 10)>>

Abs(x) == IF x < 0 THEN -x ELSE x

(* "%.1f" of the magnitude m, in tenths, behind the sign *)
FmtSigned(neg, m) ==
    (IF neg THEN <<MINUS>> ELSE <<>>)
        \o Digits(m \div 10) \o <<DOT>> \o <<ZERO + (m % 10)>>

(* "%.1f" of a value that is a whole number of tenths.  (A parsed "-0.0" is
   the float32 negative zero, printed "-0.0"; a value in tenths cannot tell
   it from 0.0, and the model's input holds no such value.) *)
FmtTenths(t) == FmtSigned(t < 0, Abs(t))

(* |sum/count| rounded to a whole number of tenths as "%.1f" rounds it: to
   the nearest; at a tie the digit printed depends on the binary value of
   the float32 quotient, which the model does not hold: up chooses between
   the neighbour away from zero and the one toward zero. *)
RoundAvg(sum, count, up) ==
    LET a == Abs(sum)
        q == a \div count
        r == a % count
    IN  IF 2 * r > count THEN q + 1
        ELSE IF 2 * r < count THEN q
        ELSE IF up THEN q + 1 ELSE q

(* "%.1f" of stats.sum/stats.count: a negative quotient keeps its sign
   even when it rounds to 0.0 *)
FmtAvg(sum, count, up) == FmtSigned(sum < 0, RoundAvg(sum, count, up))

(* one "%s=%.1f/%.1f/%.1f," of printRes: min, max, then sum/count *)
Entry(name, st, up) ==
    name \o <<EQUALS>> \o FmtTenths(st.min) \o <<SLASH>> \o FmtTenths(st.max)
         \o <<SLASH>> \o FmtAvg(st.sum, st.count, up) \o <<COMMA>>

RECURSIVE Entries(_, _, _, _)
Entries(names, tbl, hp, up) ==
    IF names = <<>> THEN <<>>
    ELSE LET ptr == tbl[Head(names)]
         IN  Entry(Head(names), hp[ptr[1]][ptr[2]], up)
                 \o Entries(Tail(names), tbl, hp, up)

(* printRes: what it writes for the table tbl over the heap hp *)
printRes(tbl, hp, up) ==
    <<LBRACE>> \o Entries(SortNames(DOMAIN tbl), tbl, hp, up) \o <<RBRACE, NL>>

----------------------------------------------------------------------------
(* run, src/main.go *)

(* the state in which main calls run: nothing planned, started or printed *)
Fresh ==
    /\ pc = "setup"
    /\ mmapped = "none"
    /\ ci = 0
    /\ nextStart = 0
    /\ chunks = [i \in Workers |-> [start |-> 0, end |-> 0]]
    /\ wpc = [i \in Workers |-> "unborn"]
    /\ lineStart = [i \in Workers |-> 0]
    /\ heap = [i \in Workers |-> <<>>]
    /\ resultses = [i \in Workers |-> <<>>]
    /\ hashes = [i \in Workers |-> <<>>]
    /\ handled = [i \in Workers |-> <<>>]
    /\ mi = 0
    /\ final = <<>>
    /\ output = <<>>
    /\ logged = <<>>
    /\ exitCode = -1
    /\ reader = [pc |-> "unborn", pos |-> 0, lineBuf |-> <<>>]
    /\ lineses = [closed |-> FALSE, sent |-> <<>>]
    /\ lines = [i \in Workers |-> <<>>]
    /\ wg = 0

Init ==
    /\ arg = <<>>
    /\ ret = <<>>
    /\ variant = "mmap"
    /\ firstTable = [known |-> FALSE, tbl |-> <<>>]
    /\ file \in Files
    /\ numWorkers \in 1..MaxWorkers
    /\ Fresh

(* setupMmap succeeds: syscall.Mmap refuses a length of 0 *)
SetupMmapOk ==
    /\ variant = "mmap"
    /\ pc = "setup"
    /\ Len(file) > 0
    /\ pc' = "plan"
    /\ mmapped' = "mapped"
    /\ UNCHANGED <<arg, ret, chanState, variant, firstTable, file, numWorkers,
                   ci, nextStart, chunks, wpc, lineStart, heap,
                   resultses, hashes, handled, mi, final, output, logged, exitCode>>

(* a run that logs the failure of setupMmap and goes on to plan; used to
   test what the property of the failure path can tell apart *)
SetupMmapFailIgnored ==
    /\ pc = "setup"
    /\ pc' = "plan"
    /\ logged' = Append(logged, "setting up mmap")
    /\ UNCHANGED <<arg, ret, chanState, variant, firstTable, file, numWorkers,
                   mmapped, ci, nextStart, chunks, wpc, lineStart,
                   heap, resultses, hashes, handled, mi, final, output, exitCode>>

(* setupMmap fails (open, stat or mmap): run returns the wrapped error and
   main logs it and exits 1 *)
SetupMmapFail ==
    /\ pc = "setup"
    /\ pc' = "exited"
    /\ logged' = Append(logged, IF variant = "mmap" THEN "setting up mmap"
                                                      ELSE "mmapping file")
    /\ exitCode' = 1
    /\ UNCHANGED <<arg, ret, chanState, variant, firstTable, file, numWorkers,
                   mmapped, ci, nextStart, chunks, wpc, lineStart,
                   heap, resultses, hashes, handled, mi, final, output>>

RECURSIVE LastEOL(_, _, _)
(* the planner's backward scan "for i := theoreticalEnd; i > start; i--":
   the first i it meets with f[i] = '\n', or -1 when the loop runs out *)
LastEOL(f, i, start) ==
    IF i <= start THEN -1
    ELSE IF At(f, i) = NL THEN i
    ELSE LastEOL(f, i - 1, start)

(* one iteration of the planner's loop over chunks *)
PlanChunk ==
    /\ pc = "plan"
    /\ LET start == nextStart
           fileLen == Len(file)
           chunkSize == fileLen \div numWorkers
           theoreticalEnd == start + chunkSize
       IN  IF ci = numWorkers - 1
           THEN \* the last chunk takes the rest of the file; break
                /\ chunks' = [chunks EXCEPT ![ci] = [start |-> start, end |-> fileLen]]
                /\ pc' = "spawn"
                /\ UNCHANGED <<ci, nextStart, mmapped, exitCode>>
           ELSE IF theoreticalEnd > start /\ theoreticalEnd >= fileLen
           THEN \* mmappedFile[i]: index out of range; the deferred close runs
                /\ chunks' = [chunks EXCEPT ![ci].start = start]
                /\ pc' = "crashed"
                /\ mmapped' = "released"
                /\ exitCode' = 2
                /\ UNCHANGED <<ci, nextStart>>
           ELSE LET i == LastEOL(file, theoreticalEnd, start)
                    end == IF i >= 0 THEN i ELSE chunks[ci].end
                IN  /\ chunks' = [chunks EXCEPT ![ci] = [start |-> start, end |-> end]]
                    /\ nextStart' = end + 1
                    /\ ci' = ci + 1
                    /\ UNCHANGED <<pc, mmapped, exitCode>>
    /\ UNCHANGED <<arg, ret, chanState, variant, firstTable, file, numWorkers,
                   wpc, lineStart, heap, resultses, hashes,
                   handled, mi, final, output, logged>>

(* the loop that makes each worker's table and starts its goroutine *)
Spawn ==
    /\ pc = "spawn"
    /\ pc' = "wait"
    /\ wpc' = [i \in Workers |-> "start"]
    /\ UNCHANGED <<arg, ret, chanState, variant, firstTable, file, numWorkers,
                   mmapped, ci, nextStart, chunks, lineStart, heap,
                   resultses, hashes, handled, mi, final, output, logged, exitCode>>

(* a panic in a worker goroutine ends the process; run's deferred close
   does not run *)
WorkerPanics(w) ==
    /\ wpc' = [wpc EXCEPT ![w] = "panicked"]
    /\ pc' = "crashed"
    /\ exitCode' = 2

(* the goroutine's NewWorker() and mmappedFile[chunk.start:chunk.end] *)
WorkerStart(w) ==
    /\ variant = "mmap"
    /\ pc = "wait"
    /\ wpc[w] = "start"
    /\ IF chunks[w].start <= chunks[w].end /\ chunks[w].end <= Len(file)
       THEN /\ wpc' = [wpc EXCEPT ![w] = "scan"]
            /\ UNCHANGED <<pc, exitCode>>
       ELSE WorkerPanics(w)
    /\ UNCHANGED <<arg, ret, chanState, variant, firstTable, file, numWorkers,
                   mmapped, ci, nextStart, chunks, lineStart, heap,
                   resultses, hashes, handled, mi, final, output, logged>>

(* the chunk worker w scans *)
ChunkOf(w) == Slice(file, chunks[w].start, chunks[w].end)

(* a run in which every goroutine is handed the first table; used to test
   what the ownership property can tell apart *)
ShardShared(w) == 0

(* "res := make(map[string]*stats, 10_000); resultses[i] = res": the table
   goroutine i is handed is the one at index i *)
ShardOf(w) == w

(* worker.run up to and including the next '\n' of the chunk: parse the
   line, find or make its stats, update them *)
WorkerLine(w) ==
    /\ variant = "mmap"
    /\ pc = "wait"
    /\ wpc[w] = "scan"
    /\ LET chunk == ChunkOf(w)
           i == IndexOfFrom(chunk, NL, lineStart[w])
       IN  /\ i >= 0
           /\ LET p == parseLineBytes(hashes[w], Slice(chunk, lineStart[w], i))
              IN  IF p.panic # ""
                  THEN /\ WorkerPanics(w)
                       /\ UNCHANGED <<lineStart, heap, resultses, hashes, handled>>
                  ELSE LET fresh == p.station \notin DOMAIN resultses[ShardOf(w)]
                           hp == IF fresh
                                 THEN Append(heap[w], [min |-> p.temp, max |-> p.temp,
                                                       sum |-> 0, count |-> 0])
                                 ELSE heap[w]
                           ptr == IF fresh THEN <<w, Len(hp)>> ELSE resultses[ShardOf(w)][p.station]
                           s == hp[ptr[2]]
                           s2 == [min |-> Min(s.min, p.temp), max |-> Max(s.max, p.temp),
                                  sum |-> s.sum + p.temp, count |-> s.count + 1]
                       IN  /\ heap' = [heap EXCEPT ![w] = [hp EXCEPT ![ptr[2]] = s2]]
                           /\ resultses' = [resultses EXCEPT ![ShardOf(w)] =
                                  [k \in DOMAIN resultses[ShardOf(w)] \cup {p.station} |->
                                      IF k = p.station THEN ptr
                                      ELSE resultses[ShardOf(w)][k]]]
                           /\ hashes' = [hashes EXCEPT ![w] = p.hashes]
                           /\ handled' = [handled EXCEPT ![w] =
                                  Append(handled[w], [off |-> chunks[w].start + lineStart[w],
                                                     ptr |-> ptr])]
                           /\ lineStart' = [lineStart EXCEPT ![w] = i + 1]
                           /\ UNCHANGED <<pc, wpc, exitCode>>
    /\ UNCHANGED <<arg, ret, chanState, variant, firstTable, file, numWorkers,
                   mmapped, ci, nextStart, chunks, mi, final,
                   output, logged>>

(* worker.run finds no further '\n': it returns nil and the goroutine ends *)
WorkerReturn(w) ==
    /\ variant = "mmap"
    /\ pc = "wait"
    /\ wpc[w] = "scan"
    /\ IndexOfFrom(ChunkOf(w), NL, lineStart[w]) < 0
    /\ wpc' = [wpc EXCEPT ![w] = "done"]
    /\ UNCHANGED <<arg, ret, chanState, variant, firstTable, file, numWorkers,
                   pc, mmapped, ci, nextStart, chunks, lineStart,
                   heap, resultses, hashes, handled, mi, final, output, logged, exitCode>>

(* a wait that returns as soon as one goroutine has called wg.Done(); used to
   test what the barrier property can tell apart *)
WaitForAny ==
    /\ pc = "wait"
    /\ \E w \in Workers : wpc[w] = "done"
    /\ pc' = "merge"
    /\ UNCHANGED <<arg, ret, chanState, variant, firstTable, file, numWorkers,
                   mmapped, ci, nextStart, chunks, wpc, lineStart,
                   heap, resultses, hashes, handled, mi, final, output, logged, exitCode>>

(* wg.Wait() returns *)
Wait ==
    /\ pc = "wait"
    /\ \A w \in Workers : wpc[w] = "done"
    /\ pc' = "merge"
    /\ UNCHANGED <<arg, ret, chanState, variant, firstTable, file, numWorkers,
                   mmapped, ci, nextStart, chunks, wpc, lineStart,
                   heap, resultses, hashes, handled, mi, final, output, logged, exitCode>>

(* pointers of table r whose key the table res already holds *)
Deref(hp, ptr) == hp[ptr[1]][ptr[2]]

(* mergeResults' body for one shard table r: a key new to res shares r's
   stats object, a key res holds has r's stats folded into res's object *)
mergeShard(res, hp, r) ==
    LET both == DOMAIN r \cap DOMAIN res
        merged(k) == LET s == Deref(hp, res[k])
                         v == Deref(hp, r[k])
                     IN  [min |-> Min(s.min, v.min), max |-> Max(s.max, v.max),
                          sum |-> s.sum + v.sum, count |-> s.count + v.count]
    IN  [res |-> [k \in DOMAIN res \cup DOMAIN r |->
                     IF k \in DOMAIN res THEN res[k] ELSE r[k]],
         heap |-> [w \in DOMAIN hp |-> [j \in 1..Len(hp[w]) |->
                     IF \E k \in both : res[k] = <<w, j>>
                     THEN merged(CHOOSE k \in both : res[k] = <<w, j>>)
                     ELSE hp[w][j]]]]

(* one iteration of mergeResults' loop over resultses *)
MergeShard ==
    /\ pc = "merge"
    /\ mi < numWorkers
    /\ LET m == mergeShard(final, heap, resultses[mi])
       IN  /\ final' = m.res
           /\ heap' = m.heap
    /\ mi' = mi + 1
    /\ UNCHANGED <<arg, ret, chanState, variant, firstTable, file, numWorkers,
                   pc, mmapped, ci, nextStart, chunks, wpc, lineStart,
                   resultses, hashes, handled, output, logged, exitCode>>

(* printRes(res) *)
PrintRes ==
    /\ pc = "merge"
    /\ mi = numWorkers
    /\ \E up \in BOOLEAN : output' = printRes(final, heap, up)
    /\ pc' = "printed"
    /\ UNCHANGED <<arg, ret, chanState, variant, firstTable, file, numWorkers,
                   mmapped, ci, nextStart, chunks, wpc, lineStart,
                   heap, resultses, hashes, handled, mi, final, logged, exitCode>>

(* run returns nil, its deferred close unmaps the file, main returns *)
Return ==
    /\ pc = "printed"
    /\ pc' = "exited"
    /\ mmapped' = "released"
    /\ exitCode' = 0
    /\ UNCHANGED <<arg, ret, chanState, variant, firstTable, file, numWorkers,
                   ci, nextStart, chunks, wpc, lineStart, heap,
                   resultses, hashes, handled, mi, final, output, logged>>

Next ==
    \/ SetupMmapOk
    \/ SetupMmapFail
    \/ PlanChunk
    \/ Spawn
    \/ \E w \in Workers : WorkerStart(w)
    \/ \E w \in Workers : WorkerLine(w)
    \/ \E w \in Workers : WorkerReturn(w)
    \/ Wait
    \/ MergeShard
    \/ PrintRes
    \/ Return

Spec == Init /\ [][Next]_vars

----------------------------------------------------------------------------
(* The program run a second time over the same file with another number of
   CPUs; the first run's final table is kept for comparison. *)

(* the table tbl with each pointer replaced by the stats it points to *)
TableValues(tbl) == [k \in DOMAIN tbl |-> Deref(heap, tbl[k])]

Rerun ==
    /\ pc = "exited"
    /\ exitCode = 0
    /\ ~firstTable.known
    /\ firstTable' = [known |-> TRUE, tbl |-> TableValues(final)]
    /\ numWorkers' \in (1..MaxWorkers) \ {numWorkers}
    /\ pc' = "setup"
    /\ mmapped' = "none"
    /\ ci' = 0
    /\ nextStart' = 0
    /\ chunks' = [i \in 0..(numWorkers' - 1) |-> [start |-> 0, end |-> 0]]
    /\ wpc' = [i \in 0..(numWorkers' - 1) |-> "unborn"]
    /\ lineStart' = [i \in 0..(numWorkers' - 1) |-> 0]
    /\ heap' = [i \in 0..(numWorkers' - 1) |-> <<>>]
    /\ resultses' = [i \in 0..(numWorkers' - 1) |-> <<>>]
    /\ hashes' = [i \in 0..(numWorkers' - 1) |-> <<>>]
    /\ handled' = [i \in 0..(numWorkers' - 1) |-> <<>>]
    /\ mi' = 0
    /\ final' = <<>>
    /\ output' = <<>>
    /\ logged' = <<>>
    /\ exitCode' = -1
    /\ UNCHANGED <<arg, ret, chanState, variant, file>>

NextTwoRuns == Next \/ Rerun

SpecTwoRuns == Init /\ [][NextTwoRuns]_vars

----------------------------------------------------------------------------
(* src/1brc/main.go: the same planner, merge and print; the file is read
   through golang.org/x/exp/mmap, each worker scans its chunk with a
   bufio.Scanner and interns names by their FNV-1 hash. *)

(* the scanner's buffer, cap(sb) = 1024*1024 in the source (64*1024*1024
   in src/unnamed/part_002), scaled to the length of the model's lines: a
   line of at least this many bytes does not fit and ends the scan with
   bufio.ErrTooLong *)
MaxTokenSize == 8

(* the lines of this variant's input:
   "a;1.0"  "a;-2.5"  "ab;12.3"  "a1.0"  and the long "abababab;1.0" *)
ScanLines ==
    { <<97, 59, 49, 46, 48>>,
      <<97, 59, 45, 50, 46, 53>>,
      <<97, 98, 59, 49, 50, 46, 51>>,
      <<97, 49, 46, 48>>,
      <<97, 98, 97, 98, 97, 98, 97, 98, 59, 49, 46, 48>> }

ScanFiles == { FileOf(ls) : ls \in UNION { [1..n -> ScanLines] : n \in 0..MaxRecords } }

InitScan ==
    /\ arg = <<>>
    /\ ret = <<>>
    /\ variant = "scan"
    /\ firstTable = [known |-> FALSE, tbl |-> <<>>]
    /\ file \in ScanFiles
    /\ numWorkers \in 1..MaxWorkers
    /\ Fresh

(* mmap.Open succeeds (an empty file too) *)
MmapOpenOk ==
    /\ variant = "scan"
    /\ pc = "setup"
    /\ pc' = "plan"
    /\ mmapped' = "mapped"
    /\ UNCHANGED <<arg, ret, chanState, variant, firstTable, file, numWorkers,
                   ci, nextStart, chunks, wpc, lineStart, heap,
                   resultses, hashes, handled, mi, final, output, logged, exitCode>>

RECURSIVE Xor(_, _)
(* bitwise exclusive or of two naturals *)
Xor(a, b) ==
    IF a = 0 THEN b
    ELSE IF b = 0 THEN a
    ELSE ((a + b) % 2) + 2 * Xor(a \div 2, b \div 2)

(* hash/fnv New32 (FNV-1) over uint32 kept as <<high, low>> 16-bit halves:
   hash *= 16777619 (= 2^24 + 403) modulo 2^32, then hash ^= b *)
FnvStep(h, b) ==
    LET lo403 == h[2] * 403
        hi == (h[1] * 403 + (lo403 \div 65536) + (h[2] % 256) * 256) % 65536
        lo == lo403 % 65536
    IN  <<hi, Xor(lo, b)>>

RECURSIVE FnvFrom(_, _)
FnvFrom(h, bs) == IF bs = <<>> THEN h ELSE FnvFrom(FnvStep(h, Head(bs)), Tail(bs))

(* w.hasher.Reset(); Write(stationBs); Sum32(): offset basis 0x811C9DC5 *)
Fnv32(bs) == FnvFrom(<<33052, 40389>>, bs)

RECURSIVE LastDot(_, _)
(* the greatest 0-based index of '.' in bs below i, or -1 *)
LastDot(bs, i) ==
    IF i <= 0 THEN -1
    ELSE IF At(bs, i - 1) = DOT THEN i - 1
    ELSE LastDot(bs, i - 1)

RECURSIVE IntOf(_, _)
(* "ip *= 10; ip += int(intPart[i])" over bytes from which the loop has
   already subtracted '0' in uint8, except the '.' bytes it skipped *)
IntOf(bs, acc) ==
    IF bs = <<>> THEN acc
    ELSE IntOf(Tail(bs), acc * 10 + (IF Head(bs) = DOT THEN DOT ELSE U8(Head(bs) - ZERO)))

(* parseFloat of src/1brc/main.go: the value in tenths, or the panic *)
parseFloat1brc(bs0) ==
    IF Len(bs0) = 0 THEN [panic |-> "index out of range"]
    ELSE
    LET neg == At(bs0, 0) = MINUS
        bs == IF neg THEN Slice(bs0, 1, Len(bs0)) ELSE bs0
        sign == IF neg THEN -1 ELSE 1
    IN  IF Len(bs) = 0 THEN [panic |-> "index out of range"]
        ELSE
        LET d == LastDot(bs, Len(bs))
            intPart == IF d < 0 THEN bs ELSE Slice(bs, 0, d)
            last == At(bs, Len(bs) - 1)
            fp == IF last = DOT THEN DOT ELSE U8(last - ZERO)
        IN  [panic |-> "", temp |-> sign * (IntOf(intPart, 0) * 10 + fp),
             neg |-> neg, ip |-> IntOf(intPart, 0), frac |-> fp]

(* parseLineBytes of src/1brc/main.go *)
parseLineBytes1brc(hs, line) ==
    LET sp == splitOnSemi(line) IN
    IF sp.panic # "" THEN [panic |-> sp.panic]
    ELSE
    LET hash == Fnv32(sp.key)
        known == hash \in DOMAIN hs
        station == IF known THEN hs[hash] ELSE sp.key
        hs2 == IF known THEN hs ELSE [h \in DOMAIN hs \cup {hash} |->
                                        IF h = hash THEN station ELSE hs[h]]
        pf == parseFloat1brc(sp.val)
    IN  IF pf.panic # "" THEN [panic |-> pf.panic]
        ELSE [panic |-> "", station |-> station, temp |-> pf.temp, hashes |-> hs2]

(* the bytes the worker's io.SectionReader yields: those of
   [chunk.start, chunk.start + n) inside the file, none when n <= 0 *)
SectionOf(w) ==
    IF chunks[w].end <= chunks[w].start THEN <<>>
    ELSE Slice(file, chunks[w].start, Min(chunks[w].end, Len(file)))

(* the goroutine's NewWorker() and the start of worker.run: section
   reader, scanner, buffer *)
ScanWorkerStart(w) ==
    /\ variant = "scan"
    /\ pc = "wait"
    /\ wpc[w] = "start"
    /\ wpc' = [wpc EXCEPT ![w] = "scan"]
    /\ UNCHANGED <<arg, ret, chanState, variant, firstTable, file, numWorkers,
                   pc, mmapped, ci, nextStart, chunks,
                   lineStart, heap, resultses, hashes, handled, mi, final, output,
                   logged, exitCode>>

(* where the scanner's next token ends: at the next '\n', else at the end
   of the section *)
TokenEnd(w) ==
    LET i == IndexOfFrom(SectionOf(w), NL, lineStart[w])
    IN  IF i < 0 THEN Len(SectionOf(w)) ELSE i

(* bufio.ScanLines' dropCR *)
DropCR(bs) ==
    IF Len(bs) > 0 /\ bs[Len(bs)] = 13 THEN SubSeq(bs, 1, Len(bs) - 1) ELSE bs

(* scanner.Scan() yields a line: parse it, find or make its stats, update *)
ScanWorkerLine(w) ==
    /\ variant = "scan"
    /\ pc = "wait"
    /\ wpc[w] = "scan"
    /\ lineStart[w] < Len(SectionOf(w))
    /\ TokenEnd(w) - lineStart[w] < MaxTokenSize
    /\ LET p == parseLineBytes1brc(hashes[w],
                    DropCR(Slice(SectionOf(w), lineStart[w], TokenEnd(w))))
       IN  IF p.panic # ""
           THEN /\ WorkerPanics(w)
                /\ UNCHANGED <<lineStart, heap, resultses, hashes, handled>>
           ELSE LET fresh == p.station \notin DOMAIN resultses[w]
                    hp == IF fresh
                          THEN Append(heap[w], [min |-> p.temp, max |-> p.temp,
                                                sum |-> 0, count |-> 0])
                          ELSE heap[w]
                    ptr == IF fresh THEN <<w, Len(hp)>> ELSE resultses[w][p.station]
                    s == hp[ptr[2]]
                    s2 == [min |-> Min(s.min, p.temp), max |-> Max(s.max, p.temp),
                           sum |-> s.sum + p.temp, count |-> s.count + 1]
                IN  /\ heap' = [heap EXCEPT ![w] = [hp EXCEPT ![ptr[2]] = s2]]
                    /\ resultses' = [resultses EXCEPT ![w] =
                           [k \in DOMAIN resultses[w] \cup {p.station} |->
                               IF k = p.station THEN ptr ELSE resultses[w][k]]]
                    /\ hashes' = [hashes EXCEPT ![w] = p.hashes]
                    /\ handled' = [handled EXCEPT ![w] =
                           Append(handled[w], [off |-> chunks[w].start + lineStart[w],
                                              ptr |-> ptr])]
                    /\ lineStart' = [lineStart EXCEPT ![w] = TokenEnd(w) + 1]
                    /\ UNCHANGED <<pc, wpc, exitCode>>
    /\ UNCHANGED <<arg, ret, chanState, variant, firstTable, file, numWorkers,
                   mmapped, ci, nextStart, chunks, mi,
                   final, output, logged>>

(* scanner.Scan() returns false at the end of the section and
   scanner.Err() is nil: worker.run returns nil *)
ScanWorkerReturn(w) ==
    /\ variant = "scan"
    /\ pc = "wait"
    /\ wpc[w] = "scan"
    /\ lineStart[w] >= Len(SectionOf(w))
    /\ wpc' = [wpc EXCEPT ![w] = "done"]
    /\ UNCHANGED <<arg, ret, chanState, variant, firstTable, file, numWorkers,
                   pc, mmapped, ci, nextStart, chunks,
                   lineStart, heap, resultses, hashes, handled, mi, final, output,
                   logged, exitCode>>

(* scanner.Scan() returns false because the line does not fit the buffer:
   worker.run returns the wrapped scanner.Err(), the goroutine logs
   "worker error" and ends *)
ScanWorkerError(w) ==
    /\ variant = "scan"
    /\ pc = "wait"
    /\ wpc[w] = "scan"
    /\ lineStart[w] < Len(SectionOf(w))
    /\ TokenEnd(w) - lineStart[w] >= MaxTokenSize
    /\ wpc' = [wpc EXCEPT ![w] = "done"]
    /\ logged' = Append(logged, "worker error")
    /\ UNCHANGED <<arg, ret, chanState, variant, firstTable, file, numWorkers,
                   pc, mmapped, ci, nextStart, chunks,
                   lineStart, heap, resultses, hashes, handled, mi, final, output,
                   exitCode>>

NextScan ==
    \/ MmapOpenOk
    \/ SetupMmapFail
    \/ PlanChunk
    \/ Spawn
    \/ \E w \in Workers : ScanWorkerStart(w)
    \/ \E w \in Workers : ScanWorkerLine(w)
    \/ \E w \in Workers : ScanWorkerReturn(w)
    \/ \E w \in Workers : ScanWorkerError(w)
    \/ Wait
    \/ MergeShard
    \/ PrintRes
    \/ Return

SpecScan == InitScan /\ [][NextScan]_vars

----------------------------------------------------------------------------
(* float32, the type of parseFloat's result and of the fields of stats.     *)
(* A value is [neg, m, e] and denotes (-1)^neg * m * 2^e, with m = 0 (then  *)
(* e = 0) or 2^23 <= m < 2^24.  Every operation rounds its exact result to  *)
(* the nearest such value, ties to the even m.  The values the model meets  *)
(* are zero or normal numbers far from overflow and underflow.             *)

RECURSIVE Pow2(_)
Pow2(k) == IF k <= 0 THEN 1 ELSE 2 * Pow2(k - 1)

RECURSIVE BitLen(_)
(* the number of binary digits of n >= 0 *)
BitLen(n) == IF n = 0 THEN 0 ELSE 1 + BitLen(n \div 2)

F32Zero(neg) == [neg |-> neg, m |-> 0, e |-> 0]

(* the float32 nearest to (-1)^neg * M * 2^E, for 0 <= M < 2^31 *)
F32Round(neg, M, E) ==
    IF M = 0 THEN F32Zero(neg)
    ELSE LET n == BitLen(M) IN
         IF n <= 24
         THEN [neg |-> neg, m |-> M * Pow2(24 - n), e |-> E - (24 - n)]
         ELSE LET k == n - 24
                  q == M \div Pow2(k)
                  r == M % Pow2(k)
                  half == Pow2(k - 1)
                  q2 == IF r > half \/ (r = half /\ q % 2 = 1) THEN q + 1 ELSE q
              IN  IF q2 = Pow2(24)
                  THEN [neg |-> neg, m |-> Pow2(23), e |-> E + k + 1]
                  ELSE [neg |-> neg, m |-> q2, e |-> E + k]

(* float32(n) of an integer 0 <= n < 2^24: exact *)
F32OfInt(n) == F32Round(FALSE, n, 0)

(* -x, and sign * x for sign = -1 *)
F32Neg(a) == [a EXCEPT !.neg = ~a.neg]

(* |a| < |b| *)
F32MagLess(a, b) ==
    IF b.m = 0 THEN FALSE
    ELSE IF a.m = 0 THEN TRUE
    ELSE a.e < b.e \/ (a.e = b.e /\ a.m < b.m)

(* a < b and a == b as Go compares float32: -0 == +0 *)
F32Less(a, b) ==
    IF a.m = 0 /\ b.m = 0 THEN FALSE
    ELSE IF a.m = 0 THEN ~b.neg
    ELSE IF b.m = 0 THEN a.neg
    ELSE IF a.neg # b.neg THEN a.neg
    ELSE IF a.neg THEN F32MagLess(b, a) ELSE F32MagLess(a, b)

F32Eq(a, b) == ~F32Less(a, b) /\ ~F32Less(b, a)

(* the built-in min and max: of the two zeros, min is -0 and max is +0 *)
F32Min(a, b) ==
    IF F32Less(a, b) THEN a
    ELSE IF F32Less(b, a) THEN b
    ELSE IF a.m = 0 THEN F32Zero(a.neg \/ b.neg) ELSE a

F32Max(a, b) ==
    IF F32Less(a, b) THEN b
    ELSE IF F32Less(b, a) THEN a
    ELSE IF a.m = 0 THEN F32Zero(a.neg /\ b.neg) ELSE a

(* a + b: the operand of the smaller exponent is shifted right behind three
   extra bits of the other, the last of them the OR of all bits shifted
   out, and the exact sum or difference of the two is rounded *)
F32Add(a, b) ==
    IF a.m = 0 THEN (IF b.m = 0 THEN F32Zero(a.neg /\ b.neg) ELSE b)
    ELSE IF b.m = 0 THEN a
    ELSE
    LET aFirst == a.e > b.e \/ (a.e = b.e /\ a.m >= b.m)
        hi == IF aFirst THEN a ELSE b
        lo == IF aFirst THEN b ELSE a
        d == hi.e - lo.e
        A == hi.m * 8
        B0 == lo.m * 8
        q == B0 \div Pow2(d)
        B == IF d = 0 THEN B0
             ELSE IF d > 27 THEN 1
             ELSE IF B0 % Pow2(d) # 0 /\ q % 2 = 0 THEN q + 1 ELSE q
    IN  IF hi.neg = lo.neg THEN F32Round(hi.neg, A + B, hi.e - 3)
        ELSE IF A = B THEN F32Zero(FALSE)
        ELSE F32Round(hi.neg, A - B, hi.e - 3)

RECURSIVE DivBits(_, _, _, _)
(* k more binary digits of r/d, for r < 2d, behind the digits q; the last
   digit returned is 1 when the division left a remainder *)
DivBits(r, d, k, q) ==
    IF k = 0 THEN 2 * q + (IF r # 0 THEN 1 ELSE 0)
    ELSE IF r >= d THEN DivBits(2 * (r - d), d, k - 1, 2 * q + 1)
    ELSE DivBits(2 * r, d, k - 1, 2 * q)

RECURSIVE F32OfRatio(_, _, _, _)
(* the float32 nearest to (-1)^neg * (n/d) * 2^E, for 0 < n, d < 2^24 *)
F32OfRatio(neg, n, d, E) ==
    IF n < d THEN F32OfRatio(neg, 2 * n, d, E - 1)
    ELSE IF n >= 2 * d THEN F32OfRatio(neg, n, 2 * d, E + 1)
    ELSE F32Round(neg, DivBits(n, d, 25, 0), E - 25)

(* a / b, b not zero *)
F32Div(a, b) ==
    IF a.m = 0 THEN F32Zero(a.neg # b.neg)
    ELSE F32OfRatio(a.neg # b.neg, a.m, b.m, a.e - b.e)

(* |a| * 10 rounded to a whole number, ties to even, as "%.1f" rounds the
   exact decimal expansion of a; |a| < 2^21 *)
F32Tenths(a) ==
    IF a.m = 0 THEN 0
    ELSE IF a.e >= 0 THEN 10 * a.m * Pow2(a.e)
    ELSE IF -a.e > 30 THEN 0
    ELSE LET k == -a.e
             q == (10 * a.m) \div Pow2(k)
             r == (10 * a.m) % Pow2(k)
             half == Pow2(k - 1)
         IN  IF r > half \/ (r = half /\ q % 2 = 1) THEN q + 1 ELSE q

(* "%.1f" of the float32 a *)
FmtF32(a) == FmtSigned(a.neg, F32Tenths(a))

----------------------------------------------------------------------------
(* RecordParser and ShardAggregator over float32 *)

(* a parseFloat that reads a two-digit integer part as its first digit;
   used to test what the decoding property can tell apart *)
parseFloat32FirstDigit(bs0) ==
    LET p == parseFloat(bs0) IN
    IF p.panic # "" THEN [panic |-> p.panic]
    ELSE LET x == F32Add(F32OfInt(IF p.ip >= 10 THEN p.ip \div 10 ELSE p.ip),
                         F32Div(F32OfInt(p.frac), F32OfInt(10)))
         IN  [panic |-> "", temp |-> IF p.neg THEN F32Neg(x) ELSE x]

(* parseFloat's "return sign * (float32(ip) + float32(fracPart)/10)" *)
parseFloat32(bs0) ==
    LET p == parseFloat(bs0) IN
    IF p.panic # "" THEN [panic |-> p.panic]
    ELSE LET x == F32Add(F32OfInt(p.ip), F32Div(F32OfInt(p.frac), F32OfInt(10)))
         IN  [panic |-> "", temp |-> IF p.neg THEN F32Neg(x) ELSE x]

(* the same statement of src/1brc/main.go *)
parseFloat1brc32(bs0) ==
    LET p == parseFloat1brc(bs0) IN
    IF p.panic # "" THEN [panic |-> p.panic]
    ELSE LET x == F32Add(F32OfInt(p.ip), F32Div(F32OfInt(p.frac), F32OfInt(10)))
         IN  [panic |-> "", temp |-> IF p.neg THEN F32Neg(x) ELSE x]

(* worker.run's handling of one parsed line: find or make the station's
   stats, then update them *)
aggregate(tbl, station, temp) ==
    LET s == IF station \in DOMAIN tbl THEN tbl[station]
             ELSE [min |-> temp, max |-> temp,
                   sum |-> F32Zero(FALSE), count |-> F32Zero(FALSE)]
        s2 == [min |-> F32Min(s.min, temp), max |-> F32Max(s.max, temp),
               sum |-> F32Add(s.sum, temp), count |-> F32Add(s.count, F32OfInt(1))]
    IN  [k \in DOMAIN tbl \cup {station} |-> IF k = station THEN s2 ELSE tbl[k]]

(* mergeResults' body for one shard table r, on the stats' values *)
mergeInto(res, r) ==
    [k \in DOMAIN res \cup DOMAIN r |->
        IF k \notin DOMAIN res THEN r[k]
        ELSE IF k \notin DOMAIN r THEN res[k]
        ELSE [min |-> F32Min(res[k].min, r[k].min),
              max |-> F32Max(res[k].max, r[k].max),
              sum |-> F32Add(res[k].sum, r[k].sum),
              count |-> F32Add(res[k].count, r[k].count)]]

RECURSIVE mergeFrom(_, _)
mergeFrom(res, list) ==
    IF list = <<>> THEN res ELSE mergeFrom(mergeInto(res, Head(list)), Tail(list))

(* mergeResults(resultses), on the stats' values *)
mergeResults(list) == mergeFrom(<<>>, list)

RECURSIVE Entries32(_, _)
Entries32(names, tbl) ==
    IF names = <<>> THEN <<>>
    ELSE LET st == tbl[Head(names)]
         IN  Head(names) \o <<EQUALS>> \o FmtF32(st.min) \o <<SLASH>> \o FmtF32(st.max)
                 \o <<SLASH>> \o FmtF32(F32Div(st.sum, st.count)) \o <<COMMA>>
                 \o Entries32(Tail(names), tbl)

(* printRes over float32 stats *)
printRes32(tbl) ==
    <<LBRACE>> \o Entries32(SortNames(DOMAIN tbl), tbl) \o <<RBRACE, NL>>

----------------------------------------------------------------------------
(* The aggregation of the records of one station, spread over the chunks   *)
(* of the workers: arg[i] is the sequence of values worker i meets.         *)

(* "0.1" "0.5" "1.0" "-2.5" "99.8" *)
F32Values ==
    { <<48, 46, 49>>, <<48, 46, 53>>, <<49, 46, 48>>,
      <<45, 50, 46, 53>>, <<57, 57, 46, 56>> }

(* the station the records name: "a" *)
Station == <<97>>

(* the ways to cut n records into s consecutive chunks *)
Cuts(n, s) == { f \in [1..n -> 1..s] : \A i \in 1..(n - 1) : f[i] <= f[i + 1] }

RECURSIVE Part(_, _, _)
(* the records of vs that the cut f gives to chunk i *)
Part(vs, f, i) ==
    IF vs = <<>> THEN <<>>
    ELSE LET n == Len(vs)
             rest == Part(SubSeq(vs, 1, n - 1), [j \in 1..(n - 1) |-> f[j]], i)
         IN  IF f[n] = i THEN Append(rest, vs[n]) ELSE rest

F32Inputs ==
    UNION { { [i \in 1..s |-> Part(vs, f, i)] : vs \in [1..n -> F32Values], f \in Cuts(n, s) }
            : n \in 0..MaxRecords, s \in 1..MaxWorkers }

(* the pipeline's variables, which these specifications leave alone *)
pipeline == <<chanState, variant, firstTable, file, numWorkers, pc, mmapped, ci, nextStart,
              chunks, wpc, lineStart, heap, resultses, hashes, handled, mi, final,
              output, logged, exitCode>>

InitF32 ==
    /\ arg \in F32Inputs
    /\ ret = [tables |-> [i \in 1..Len(arg) |-> <<>>],
              pos |-> [i \in 1..Len(arg) |-> 0],
              merged |-> 0, res |-> <<>>, out |-> <<>>]
    /\ variant = "f32"
    /\ firstTable = [known |-> FALSE, tbl |-> <<>>]
    /\ file = <<>>
    /\ numWorkers = Len(arg)
    /\ Fresh

(* worker i parses and aggregates its next record *)
Aggregate(i) ==
    /\ ret.pos[i] < Len(arg[i])
    /\ LET pf == parseFloat32(arg[i][ret.pos[i] + 1])
       IN  ret' = [ret EXCEPT !.pos[i] = @ + 1,
                              !.tables[i] = aggregate(@, Station, pf.temp)]
    /\ UNCHANGED <<arg, pipeline>>

(* one iteration of mergeResults' loop, once every worker is done *)
Merge32 ==
    /\ \A i \in 1..Len(arg) : ret.pos[i] = Len(arg[i])
    /\ ret.merged < Len(arg)
    /\ ret' = [ret EXCEPT !.merged = @ + 1,
                          !.res = mergeInto(@, ret.tables[ret.merged + 1])]
    /\ UNCHANGED <<arg, pipeline>>

(* printRes(res) *)
Print32 ==
    /\ ret.merged = Len(arg)
    /\ ret.out = <<>>
    /\ ret' = [ret EXCEPT !.out = printRes32(ret.res)]
    /\ UNCHANGED <<arg, pipeline>>

NextF32 ==
    \/ \E i \in 1..Len(arg) : Aggregate(i)
    \/ Merge32
    \/ Print32

SpecF32 == InitF32 /\ [][NextF32]_vars

----------------------------------------------------------------------------
(* The record parser applied to one line on its own: the split of          *)
(* src/unnamed/part_001, then parseFloat.                                  *)

(* a split that probes len-5 and len-4 only; used to test what the
   equivalence with the full scan can tell apart *)
splitOnSemiTwoProbes(bs) ==
    LET n == Len(bs)
        cut(i) == [panic |-> "", key |-> Slice(bs, 0, i), val |-> Slice(bs, i + 1, n)]
    IN  IF n - 5 < 0 THEN [panic |-> "index out of range"]
        ELSE IF At(bs, n - 5) = SEMI THEN cut(n - 5)
        ELSE IF At(bs, n - 4) = SEMI THEN cut(n - 4)
        ELSE [panic |-> "no semicolon found"]

(* worker.splitOnSemi of src/unnamed/part_001: the ';' is looked for 5, then
   4, then 6 bytes from the end; bs[i] with i < 0 is a run-time panic *)
splitOnSemiProbing(bs) ==
    LET n == Len(bs)
        cut(i) == [panic |-> "", key |-> Slice(bs, 0, i), val |-> Slice(bs, i + 1, n)]
    IN  IF n - 5 < 0 THEN [panic |-> "index out of range"]
        ELSE IF At(bs, n - 5) = SEMI THEN cut(n - 5)
        ELSE IF At(bs, n - 4) = SEMI THEN cut(n - 4)
        ELSE IF n - 6 < 0 THEN [panic |-> "index out of range"]
        ELSE IF At(bs, n - 6) = SEMI THEN cut(n - 6)
        ELSE [panic |-> "no semicolon found"]

(* bound: the longest name of a line *)
MaxNameLen == 2

(* the bytes of a name: 'a' and '-' *)
NameBytes == {97, 45}

Names == UNION { [1..n -> NameBytes] : n \in 1..MaxNameLen }

(* every value of the grammar: -?d.d and -?dd.d *)
GrammarValues ==
    { sg \o ip \o <<DOT, ZERO + f>> :
        sg \in {<<>>, <<MINUS>>},
        ip \in { <<ZERO + d>> : d \in 0..9 }
                  \cup { <<ZERO + d, ZERO + u>> : d \in 0..9, u \in 0..9 },
        f \in 0..9 }

(* values outside the grammar: "", "5", "1.23" *)
OffGrammar == { <<>>, <<53>>, <<49, 46, 50, 51>> }

ParseLines == { n \o <<SEMI>> \o v : n \in Names, v \in GrammarValues \cup OffGrammar }

InitParse ==
    /\ arg \in ParseLines
    /\ ret = [step |-> "line"]
    /\ variant = "parse"
    /\ firstTable = [known |-> FALSE, tbl |-> <<>>]
    /\ file = <<>>
    /\ numWorkers = 1
    /\ Fresh

(* parseLineBytes' call of splitOnSemi *)
SplitLine ==
    /\ ret.step = "line"
    /\ ret' = [step |-> "split", sp |-> splitOnSemiProbing(arg)]
    /\ UNCHANGED <<arg, pipeline>>

(* parseLineBytes' call of parseFloat on the value bytes *)
ParseValue ==
    /\ ret.step = "split"
    /\ ret.sp.panic = ""
    /\ ret' = [step |-> "parsed", sp |-> ret.sp, pf |-> parseFloat32(ret.sp.val)]
    /\ UNCHANGED <<arg, pipeline>>

(* the same call with the parseFloat of src/1brc/main.go *)
ParseValue1brc ==
    /\ ret.step = "split"
    /\ ret.sp.panic = ""
    /\ ret' = [step |-> "parsed", sp |-> ret.sp, pf |-> parseFloat1brc32(ret.sp.val)]
    /\ UNCHANGED <<arg, pipeline>>

NextParse ==
    \/ SplitLine
    \/ ParseValue
    \/ ParseValue1brc

SpecParse == InitParse /\ [][NextParse]_vars

----------------------------------------------------------------------------
(* src/unnamed/part_002: a reader goroutine scans the file line by line
   and sends the lines in batches over the unbuffered channel lineses; each
   worker receives batches, parses and aggregates their lines into its own
   table; the merge and the print are those of src/main.go.  A float64
   temperature is held as the integer number of tenths it denotes.  The
   scanner's buffer (64 MiB in this variant) is scaled to MaxTokenSize. *)

(* "const lineBufSize = 10 * 1024", scaled to the length of the model's
   files: the number of lines of a batch *)
lineBufSize == 2

(* the lines of this variant's input:
   "a;1.0"  "ab;-2.5"  well-formed,  "a1.0" no separator *)
ChanLines ==
    { <<97, 59, 49, 46, 48>>,
      <<97, 98, 59, 45, 50, 46, 53>>,
      <<97, 49, 46, 48>> }

(* six well-formed lines: "a;1.0" "ab;-2.5" "a;12.3" "b;0.5" "a;-0.1" "b;7.0" *)
SixLines ==
    << <<97, 59, 49, 46, 48>>,
       <<97, 98, 59, 45, 50, 46, 53>>,
       <<97, 59, 49, 50, 46, 51>>,
       <<98, 59, 48, 46, 53>>,
       <<97, 59, 45, 48, 46, 49>>,
       <<98, 59, 55, 46, 48>> >>

(* the files of this variant: up to MaxRecords lines, the six lines, a line
   too long for the scanner ("abababab;1.0"), a value that is no number
   ("a;1.0\na;x\n"), and a file whose last line has no terminator
   ("a;1.0\nab;-2.5") *)
ChanFiles ==
    { FileOf(ls) : ls \in UNION { [1..n -> ChanLines] : n \in 0..MaxRecords } }
        \cup { FileOf(SixLines),
               FileOf(<< <<97, 98, 97, 98, 97, 98, 97, 98, 59, 49, 46, 48>> >>),
               <<97, 59, 49, 46, 48, 10, 97, 59, 120, 10>>,
               <<97, 59, 49, 46, 48, 10, 97, 98, 59, 45, 50, 46, 53>> }

InitChan ==
    /\ arg = <<>>
    /\ ret = <<>>
    /\ variant = "chan"
    /\ firstTable = [known |-> FALSE, tbl |-> <<>>]
    /\ file \in ChanFiles
    /\ numWorkers \in 1..MaxWorkers
    /\ Fresh

(* "wg.Add(1); go func() {...}()": the reader goroutine is started *)
GoReader ==
    /\ variant = "chan"
    /\ pc = "setup"
    /\ pc' = "spawn"
    /\ wg' = wg + 1
    /\ reader' = [reader EXCEPT !.pc = "open"]
    /\ UNCHANGED <<arg, ret, lineses, lines, variant, firstTable, file, numWorkers,
                   mmapped, ci, nextStart, chunks, wpc, lineStart, heap,
                   resultses, hashes, handled, mi, final, output, logged, exitCode>>

(* one iteration of "for i := range numWorkers": the worker's table is
   made, wg.Add(1), its goroutine started; after the last one run is at
   wg.Wait() *)
SpawnWorker ==
    /\ variant = "chan"
    /\ pc = "spawn"
    /\ ci < numWorkers
    /\ wg' = wg + 1
    /\ wpc' = [wpc EXCEPT ![ci] = "recv"]
    /\ ci' = ci + 1
    /\ pc' = IF ci + 1 = numWorkers THEN "wait" ELSE "spawn"
    /\ UNCHANGED <<arg, ret, reader, lineses, lines, variant, firstTable, file,
                   numWorkers, mmapped, nextStart, chunks, lineStart, heap,
                   resultses, hashes, handled, mi, final, output, logged, exitCode>>

(* the goroutines run while run is in its loop or at wg.Wait() *)
Running == variant = "chan" /\ pc \in {"spawn", "wait"}

(* a panic in the reader goroutine: its deferred calls run (fh.Close,
   close(lineses), wg.Done), then the process ends with the message on
   standard error *)
ReaderPanics(msg) ==
    /\ logged' = Append(logged, msg)
    /\ reader' = [reader EXCEPT !.pc = "panicked"]
    /\ lineses' = [lineses EXCEPT !.closed = TRUE]
    /\ wg' = wg - 1
    /\ pc' = "crashed"
    /\ exitCode' = 2

(* os.Open(filename) succeeds; the scanner is set up *)
ReaderOpen ==
    /\ Running
    /\ reader.pc = "open"
    /\ reader' = [reader EXCEPT !.pc = "scan"]
    /\ UNCHANGED <<arg, ret, lineses, lines, wg, variant, firstTable, file, numWorkers,
                   pc, mmapped, ci, nextStart, chunks, wpc, lineStart, heap,
                   resultses, hashes, handled, mi, final, output, logged, exitCode>>

(* os.Open(filename) fails: panic("opening file ...") *)
ReaderOpenFail ==
    /\ Running
    /\ reader.pc = "open"
    /\ ReaderPanics("opening file")
    /\ UNCHANGED <<arg, ret, lines, variant, firstTable, file, numWorkers,
                   mmapped, ci, nextStart, chunks, wpc, lineStart, heap,
                   resultses, hashes, handled, mi, final, output>>

(* where the token that starts at offset o ends: at the next '\n', else at
   the end of the file *)
ChanTokenEnd(o) ==
    LET i == IndexOfFrom(file, NL, o)
    IN  IF i < 0 THEN Len(file) ELSE i

(* rdr.Text() of the token that starts at offset o *)
ChanText(o) == DropCR(Slice(file, o, ChanTokenEnd(o)))

(* "for rdr.Scan() { line := rdr.Text(); lineBuf = append(lineBuf, line);
   if len(lineBuf) == cap(lineBuf) {": one line is scanned; with a full
   lineBuf the reader goes on to send it.  A line is held by its offset. *)
ReaderScan ==
    /\ Running
    /\ reader.pc = "scan"
    /\ reader.pos < Len(file)
    /\ ChanTokenEnd(reader.pos) - reader.pos < MaxTokenSize
    /\ LET lineBuf == Append(reader.lineBuf, reader.pos)
       IN  reader' = [pc |-> IF Len(lineBuf) = lineBufSize THEN "send" ELSE "scan",
                      pos |-> ChanTokenEnd(reader.pos) + 1,
                      lineBuf |-> lineBuf]
    /\ UNCHANGED <<arg, ret, lineses, lines, wg, variant, firstTable, file, numWorkers,
                   pc, mmapped, ci, nextStart, chunks, wpc, lineStart, heap,
                   resultses, hashes, handled, mi, final, output, logged, exitCode>>

(* rdr.Scan() meets a line that does not fit the buffer: rdr.Err() is
   bufio.ErrTooLong and the reader panics with "scanner error ..." *)
ReaderScanError ==
    /\ Running
    /\ reader.pc = "scan"
    /\ reader.pos < Len(file)
    /\ ChanTokenEnd(reader.pos) - reader.pos >= MaxTokenSize
    /\ ReaderPanics("scanner error")
    /\ UNCHANGED <<arg, ret, lines, variant, firstTable, file, numWorkers,
                   mmapped, ci, nextStart, chunks, wpc, lineStart, heap,
                   resultses, hashes, handled, mi, final, output>>

(* "lineses <- lineBuf" meets worker w at "for lines := range lineses":
   the channel has no buffer, the send and the receive are one step; the
   reader makes a new lineBuf *)
Handoff(w) ==
    /\ Running
    /\ reader.pc = "send"
    /\ wpc[w] = "recv"
    /\ ~lineses.closed
    /\ lines' = [lines EXCEPT ![w] = reader.lineBuf]
    /\ lineStart' = [lineStart EXCEPT ![w] = 0]
    /\ wpc' = [wpc EXCEPT ![w] = "work"]
    /\ lineses' = [lineses EXCEPT !.sent = Append(lineses.sent,
                                             [batch |-> reader.lineBuf, to |-> w])]
    /\ reader' = [reader EXCEPT !.pc = "scan", !.lineBuf = <<>>]
    /\ UNCHANGED <<arg, ret, wg, variant, firstTable, file, numWorkers,
                   pc, mmapped, ci, nextStart, chunks, heap,
                   resultses, hashes, handled, mi, final, output, logged, exitCode>>

(* a reader that returns without closing the channel; used to test what the
   termination property can tell apart *)
ReaderReturnNoClose ==
    /\ Running
    /\ reader.pc = "scan"
    /\ reader.pos >= Len(file)
    /\ reader' = [reader EXCEPT !.pc = "done"]
    /\ wg' = wg - 1
    /\ UNCHANGED <<arg, ret, lineses, lines, variant, firstTable, file, numWorkers,
                   pc, mmapped, ci, nextStart, chunks, wpc, lineStart, heap,
                   resultses, hashes, handled, mi, final, output, logged, exitCode>>

(* rdr.Scan() returns false at the end of the file, rdr.Err() is nil and the
   goroutine's function ends: its deferred calls run, fh.Close(),
   close(lineses), wg.Done().  What lineBuf holds is not sent. *)
ReaderReturn ==
    /\ Running
    /\ reader.pc = "scan"
    /\ reader.pos >= Len(file)
    /\ reader' = [reader EXCEPT !.pc = "done"]
    /\ lineses' = [lineses EXCEPT !.closed = TRUE]
    /\ wg' = wg - 1
    /\ UNCHANGED <<arg, ret, lines, variant, firstTable, file, numWorkers,
                   pc, mmapped, ci, nextStart, chunks, wpc, lineStart, heap,
                   resultses, hashes, handled, mi, final, output, logged, exitCode>>

(* strconv.ParseFloat(v, 64) for the values of the model's input: an
   optional sign, digits, '.', one digit is a number, held in tenths;
   anything else the input holds ("", "x") is a syntax error.  The rest of
   strconv's syntax (exponents, hexadecimal, "inf", more digits) does not
   occur in the input. *)
ParseFloat(v) ==
    LET signed == Len(v) > 0 /\ v[1] \in {MINUS, 43}
        body == IF signed THEN Tail(v) ELSE v
        n == Len(body)
        isDigit(b) == b >= ZERO /\ b <= ZERO + 9
        RECURSIVE number(_)
        number(ds) == IF ds = <<>> THEN 0
                      ELSE 10 * number(SubSeq(ds, 1, Len(ds) - 1)) + (ds[Len(ds)] - ZERO)
        ok == /\ n >= 3
              /\ body[n - 1] = DOT
              /\ isDigit(body[n])
              /\ \A j \in 1..(n - 2) : isDigit(body[j])
        mag == 10 * number(SubSeq(body, 1, n - 2)) + (body[n] - ZERO)
    IN  IF ok THEN [err |-> FALSE,
                    val |-> IF signed /\ v[1] = MINUS THEN -mag ELSE mag]
        ELSE [err |-> TRUE, val |-> 0]

(* parseLine: strings.SplitN(line, ";", 2), then ParseFloat(parts[1], 64);
   without a ';' parts has one element and parts[1] panics *)
parseLine(line) ==
    LET semi == IndexOfFrom(line, SEMI, 0)
        pf == ParseFloat(Slice(line, semi + 1, Len(line)))
    IN  IF semi < 0
        THEN [panic |-> "index out of range", err |-> FALSE, station |-> <<>>, temp |-> 0]
        ELSE IF pf.err
        THEN [panic |-> "", err |-> TRUE, station |-> <<>>, temp |-> 0]
        ELSE [panic |-> "", err |-> FALSE, station |-> Slice(line, 0, semi),
              temp |-> pf.val]

(* one iteration of "for _, line := range lines" in worker w: parse the
   line (panic when parseLine panics or returns an error), find or make the
   station's stats, update them; after the batch's last line the worker is
   back at "for lines := range lineses".  (The step's values are bound
   with \E over a one-element set, which TLC evaluates once.) *)
ChanWorkerLine(w) ==
    /\ Running
    /\ wpc[w] = "work"
    /\ \E off \in {lines[w][lineStart[w] + 1]} :
       \E line \in {ChanText(off)} :
       \E p \in {parseLine(line)} :
          IF p.panic # "" \/ p.err
          THEN /\ WorkerPanics(w)
               /\ UNCHANGED <<lineStart, heap, resultses, handled>>
          ELSE \E fresh \in {p.station \notin DOMAIN resultses[w]} :
               \E hp \in {IF fresh
                          THEN Append(heap[w], [min |-> p.temp, max |-> p.temp,
                                                sum |-> 0, count |-> 0])
                          ELSE heap[w]} :
               \E ptr \in {IF fresh THEN <<w, Len(hp)>> ELSE resultses[w][p.station]} :
               \E s \in {hp[ptr[2]]} :
                  /\ heap' = [heap EXCEPT ![w] = [hp EXCEPT ![ptr[2]] =
                         [min |-> Min(s.min, p.temp), max |-> Max(s.max, p.temp),
                          sum |-> s.sum + p.temp, count |-> s.count + 1]]]
                  /\ resultses' = [resultses EXCEPT ![w] =
                         [k \in DOMAIN resultses[w] \cup {p.station} |->
                             IF k = p.station THEN ptr ELSE resultses[w][k]]]
                  /\ handled' = [handled EXCEPT ![w] =
                         Append(handled[w], [off |-> off, ptr |-> ptr])]
                  /\ lineStart' = [lineStart EXCEPT ![w] = lineStart[w] + 1]
                  /\ wpc' = [wpc EXCEPT ![w] =
                         IF lineStart[w] + 1 = Len(lines[w]) THEN "recv" ELSE "work"]
                  /\ UNCHANGED <<pc, exitCode>>
    /\ UNCHANGED <<arg, ret, reader, lineses, lines, wg, variant, firstTable, file,
                   numWorkers, mmapped, ci, nextStart, chunks, hashes,
                   mi, final, output, logged>>

(* "for lines := range lineses" finds the channel closed: the loop ends,
   the goroutine's function returns and its deferred wg.Done() runs *)
ChanWorkerReturn(w) ==
    /\ Running
    /\ wpc[w] = "recv"
    /\ lineses.closed
    /\ wpc' = [wpc EXCEPT ![w] = "done"]
    /\ wg' = wg - 1
    /\ UNCHANGED <<arg, ret, reader, lineses, lines, variant, firstTable, file,
                   numWorkers, pc, mmapped, ci, nextStart, chunks, lineStart, heap,
                   resultses, hashes, handled, mi, final, output, logged, exitCode>>

(* wg.Wait() returns: the counter is 0 *)
ChanWait ==
    /\ variant = "chan"
    /\ pc = "wait"
    /\ wg = 0
    /\ pc' = "merge"
    /\ UNCHANGED <<arg, ret, chanState, variant, firstTable, file, numWorkers,
                   mmapped, ci, nextStart, chunks, wpc, lineStart,
                   heap, resultses, hashes, handled, mi, final, output, logged, exitCode>>

(* run returns nil and main returns *)
ChanReturn ==
    /\ variant = "chan"
    /\ pc = "printed"
    /\ pc' = "exited"
    /\ exitCode' = 0
    /\ UNCHANGED <<arg, ret, chanState, variant, firstTable, file, numWorkers,
                   mmapped, ci, nextStart, chunks, wpc, lineStart, heap,
                   resultses, hashes, handled, mi, final, output, logged>>

NextChan ==
    \/ GoReader
    \/ SpawnWorker
    \/ ReaderOpen
    \/ ReaderOpenFail
    \/ ReaderScan
    \/ ReaderScanError
    \/ \E w \in Workers : Handoff(w)
    \/ ReaderReturn
    \/ \E w \in Workers : ChanWorkerLine(w)
    \/ \E w \in Workers : ChanWorkerReturn(w)
    \/ ChanWait
    \/ MergeShard
    \/ PrintRes
    \/ ChanReturn

SpecChan == InitChan /\ [][NextChan]_vars

(* the Go scheduler runs every goroutine that can take a step: the reader,
   each worker, the meeting of a send with a receive, and main *)
SpecChanFair ==
    /\ SpecChan
    /\ WF_vars(GoReader) /\ WF_vars(SpawnWorker)
    /\ WF_vars(ReaderOpen) /\ WF_vars(ReaderScan) /\ WF_vars(ReaderScanError)
    /\ WF_vars(ReaderReturn)
    /\ \A w \in 0..(MaxWorkers - 1) :
          /\ WF_vars(w \in Workers /\ Handoff(w))
          /\ WF_vars(w \in Workers /\ ChanWorkerLine(w))
          /\ WF_vars(w \in Workers /\ ChanWorkerReturn(w))
    /\ WF_vars(ChanWait) /\ WF_vars(MergeShard) /\ WF_vars(PrintRes) /\ WF_vars(ChanReturn)

----------------------------------------------------------------------------
(* The input format of the specification, against which the claims are    *)
(* stated: records, well-formed names and values, the number a value       *)
(* denotes.                                                                *)

IsDigit(b) == ZERO <= b /\ b <= ZERO + 9

(* optional '-', one or two digits, '.', one digit *)
WellFormedValue(v) ==
    LET u == IF Len(v) > 0 /\ v[1] = MINUS THEN Tail(v) ELSE v
    IN  /\ Len(u) \in {3, 4}
        /\ \A j \in 1..(Len(u) - 2) : IsDigit(u[j])
        /\ u[Len(u) - 1] = DOT
        /\ IsDigit(u[Len(u)])

(* the tenths a well-formed value denotes *)
Denote(v) ==
    LET neg == v[1] = MINUS
        u == IF neg THEN Tail(v) ELSE v
        ip == IF Len(u) = 4 THEN (u[1] - ZERO) * 10 + (u[2] - ZERO) ELSE u[1] - ZERO
        t == ip * 10 + (u[Len(u)] - ZERO)
    IN  IF neg THEN -t ELSE t

HasSemi(l) == \E j \in 1..Len(l) : l[j] = SEMI
FirstSemi(l) == CHOOSE j \in 1..Len(l) : l[j] = SEMI /\ \A k \in 1..(j - 1) : l[k] # SEMI
NameOf(l) == SubSeq(l, 1, FirstSemi(l) - 1)
ValueOf(l) == SubSeq(l, FirstSemi(l) + 1, Len(l))

WellFormedLine(l) ==
    /\ HasSemi(l)
    /\ Len(NameOf(l)) \in 1..100
    /\ WellFormedValue(ValueOf(l))

(* offsets at which a record of the file starts *)
RecordStarts == { o \in 0..(Len(file) - 1) : o = 0 \/ At(file, o - 1) = NL }

(* the bytes from offset o up to the next terminator *)
LineAt(o) ==
    LET e == IndexOfFrom(file, NL, o)
    IN  Slice(file, o, IF e < 0 THEN Len(file) ELSE e)

(* every record of the file is well-formed *)
ValidInput == \A o \in RecordStarts : WellFormedLine(LineAt(o))

(* the planner has produced all its chunks *)
Planned == pc \in {"spawn", "wait", "merge", "printed"} \/ (pc = "exited" /\ exitCode = 0)

(* every worker has scanned its chunk *)
AllScanned == pc \in {"merge", "printed"} \/ (pc = "exited" /\ exitCode = 0)

(* mergeResults has returned *)
Merged == (pc = "merge" /\ mi = numWorkers) \/ pc = "printed"
              \/ (pc = "exited" /\ exitCode = 0)

(* the history entries <<worker, index>> of the line at offset o *)
HandledAt(o) == { e \in { <<w, j>> \in (Workers \X (1..Len(file))) : j <= Len(handled[w]) } :
                      handled[e[1]][e[2]].off = o }

HandledCount == LET RECURSIVE Sum(_)
                    Sum(W) == IF W = {} THEN 0
                              ELSE LET w == CHOOSE x \in W : TRUE
                                   IN  Len(handled[w]) + Sum(W \ {w})
                IN  Sum(Workers)

----------------------------------------------------------------------------
(* Claims *)

(* C1: for an input of N newline-terminated records and any worker count,
   once every worker has scanned its chunk the workers have parsed and
   aggregated exactly N records, each record by exactly one worker. *)
C1_EveryRecordOnce ==
    (ValidInput /\ AllScanned) =>
        /\ HandledCount = Cardinality(RecordStarts)
        /\ \A o \in RecordStarts : Cardinality(HandledAt(o)) = 1

(* C8: the planner's chunks are contiguous and cover [0, L): start_0 = 0,
   end_(W-1) = L, start_i <= end_i and start_(i+1) = end_i. *)
C8_ChunksPartition ==
    Planned =>
        /\ chunks[0].start = 0
        /\ chunks[numWorkers - 1].end = Len(file)
        /\ \A i \in Workers : chunks[i].start <= chunks[i].end
        /\ \A i \in Workers \ {numWorkers - 1} : chunks[i + 1].start = chunks[i].end

(* a record starts at offset o, or o is the end of the file *)
OnRecordBoundary(o) == o = 0 \/ (o - 1 < Len(file) /\ At(file, o - 1) = NL)

(* the naive boundary of chunk i *)
NaiveEnd(i) == chunks[i].start + (Len(file) \div numWorkers)

(* C9: every non-final chunk ends at the nearest line terminator at or
   before start_i + L/W, and every chunk starts at 0 or right after a line
   terminator. *)
C9_BoundariesOnTerminators ==
    Planned =>
        /\ \A i \in Workers \ {numWorkers - 1} :
              /\ chunks[i].end \in 0..(Len(file) - 1)
              /\ At(file, chunks[i].end) = NL
              /\ chunks[i].end <= NaiveEnd(i)
              /\ \A j \in (chunks[i].end + 1)..NaiveEnd(i) :
                    j < Len(file) => At(file, j) # NL
        /\ \A i \in Workers : OnRecordBoundary(chunks[i].start)

(* no line terminator lies in (start_i, start_i + L/W] *)
NoTerminatorInReach(i) ==
    \A j \in (chunks[i].start + 1)..NaiveEnd(i) : j < Len(file) => At(file, j) # NL

(* C10: when no line terminator exists between start_i and start_i + L/W
   for a non-final chunk i, the planner still yields end_i >= start_i and a
   next start on a record boundary. *)
C10_DegenerateProgress ==
    Planned =>
        \A i \in Workers \ {numWorkers - 1} :
            NoTerminatorInReach(i) =>
                /\ chunks[i].end >= chunks[i].start
                /\ OnRecordBoundary(chunks[i + 1].start)

(* the stats a table holds for key k *)
StatsOf(tbl, k) == Deref(heap, tbl[k])

(* the records of the input named k, and the sum of the values of a set of
   records *)
RecordsNamed(k) == { o \in RecordStarts : HasSemi(LineAt(o)) /\ NameOf(LineAt(o)) = k }
ValueAt(o) == Denote(ValueOf(LineAt(o)))

RECURSIVE SumValues(_)
SumValues(S) ==
    IF S = {} THEN 0
    ELSE LET o == CHOOSE x \in S : TRUE IN ValueAt(o) + SumValues(S \ {o})

(* C3: after the merge every key of the final table has min <= every value
   of the input records with that key <= max, sum their exact sum and
   count their number. *)
C3_FinalTableExact ==
    (ValidInput /\ Merged) =>
        \A k \in DOMAIN final :
            LET st == StatsOf(final, k)
                recs == RecordsNamed(k)
            IN  /\ \A o \in recs : st.min <= ValueAt(o) /\ ValueAt(o) <= st.max
                /\ st.sum = SumValues(recs)
                /\ st.count = Cardinality(recs)

(* C4: a record contributes to the Aggregate kept (and printed) under its
   own name: the stats a worker updated for a line are the ones its table
   holds under that line's name, so distinct names never share stats. *)
C4_KeyIsName ==
    \A w \in Workers : \A j \in 1..Len(handled[w]) :
        LET e == handled[w][j]
            name == NameOf(LineAt(e.off))
        IN  /\ name \in DOMAIN resultses[w]
            /\ resultses[w][name] = e.ptr

(* the summary in the canonical form: name=min/avg/max, comma-joined *)
CanonEntry(name, st, up) ==
    name \o <<EQUALS>> \o FmtTenths(st.min) \o <<SLASH>>
         \o FmtAvg(st.sum, st.count, up) \o <<SLASH>> \o FmtTenths(st.max)

RECURSIVE CanonEntries(_, _)
CanonEntries(names, up) ==
    IF names = <<>> THEN <<>>
    ELSE CanonEntry(Head(names), StatsOf(final, Head(names)), up)
             \o (IF Len(names) > 1 THEN <<COMMA>> ELSE <<>>)
             \o CanonEntries(Tail(names), up)

CanonSummary(up) ==
    <<LBRACE>> \o CanonEntries(SortNames(DOMAIN final), up) \o <<RBRACE, NL>>

(* "{Bulawayo=8.9/8.9/8.9,Hamburg=8.0/10.0/12.0}" and a newline *)
ExampleOutput ==
    <<123, 66, 117, 108, 97, 119, 97, 121, 111, 61, 56, 46, 57, 47, 56, 46, 57, 47,
      56, 46, 57, 44, 72, 97, 109, 98, 117, 114, 103, 61, 56, 46, 48, 47, 49, 48, 46,
      48, 47, 49, 50, 46, 48, 125, 10>>

(* C5: the summary is '{', the entries name=min/avg/max joined by single
   commas with none before the closing '}', and a newline; for the example
   input it is {Bulawayo=8.9/8.9/8.9,Hamburg=8.0/10.0/12.0}. *)
C5_SummaryFormat ==
    pc = "printed" =>
        /\ \E up \in BOOLEAN : output = CanonSummary(up)
        /\ file = FileOf(ExampleLines) => output = ExampleOutput

(* C6: a malformed input line makes the run abort with a non-zero exit and
   is never decoded and aggregated. *)
C6_MalformedAborts ==
    /\ \A w \in Workers : \A j \in 1..Len(handled[w]) :
          handled[w][j].off \in RecordStarts => WellFormedLine(LineAt(handled[w][j].off))
    /\ exitCode = 0 => ValidInput

(* C2: two runs over the same file with different worker counts end with
   the same final table: the same keys, each with the same min, max, sum
   and count. *)
C2_WorkerCountIndependent ==
    (ValidInput /\ firstTable.known /\ pc = "exited" /\ exitCode = 0) =>
        TableValues(final) = firstTable.tbl

(* C7: when a worker's run returns an error, run returns an error and the
   process exits non-zero: it never exits 0 after a worker error. *)
C7_WorkerErrorExitsNonZero ==
    (\E j \in 1..Len(logged) : logged[j] = "worker error") => exitCode # 0

----------------------------------------------------------------------------
(* C11: the merge starts only after every worker goroutine has finished:
   while run is in mergeResults or past it, every worker is done, and as
   long as some worker is not done mergeResults has read no shard table. *)
C11_MergeAfterWorkers ==
    /\ pc \in {"merge", "printed"} => \A w \in Workers : wpc[w] = "done"
    /\ (\E w \in Workers : wpc[w] # "done") => mi = 0 /\ final = <<>>

(* mergeResults has read a table, of two workers that each aggregated *)
C11_Witness ==
    /\ pc = "merge"
    /\ mi >= 1
    /\ numWorkers >= 2
    /\ \A w \in Workers : handled[w] # <<>>

(* what worker v owns: its table, its interning map, its stats objects,
   its position and its history *)
OwnedBy(v) == <<resultses[v], hashes[v], heap[v], handled[v], lineStart[v], wpc[v]>>

(* C12: during the parse phase a shard table, the interning map and the
   stats objects of worker w change only in a step in which worker w
   aggregates a record, and such a step leaves everything the other workers
   own as it was; a table points to stats objects of its own worker only. *)
C12_ShardOwnership ==
    /\ [](pc = "wait" =>
            \A w \in Workers : \A k \in DOMAIN resultses[w] : resultses[w][k][1] = w)
    /\ [][pc = "wait" =>
            \A w \in Workers :
                (resultses'[w] # resultses[w] \/ hashes'[w] # hashes[w]
                    \/ heap'[w] # heap[w])
                => /\ wpc[w] = "scan"
                   /\ Len(handled'[w]) = Len(handled[w]) + 1
                   /\ \A v \in Workers \ {w} : OwnedBy(v)' = OwnedBy(v)]_vars

(* two workers are scanning and both have aggregated a record *)
C12_Witness ==
    /\ pc = "wait"
    /\ \E w, v \in Workers :
          /\ w # v
          /\ wpc[w] = "scan" /\ wpc[v] = "scan"
          /\ resultses[w] # <<>> /\ resultses[v] # <<>>

(* every worker has aggregated all its records *)
AllAggregated == \A i \in 1..Len(arg) : ret.pos[i] = Len(arg[i])

Perms(n) == { p \in [1..n -> 1..n] : \A i, j \in 1..n : i # j => p[i] # p[j] }

SameStats(s, t) ==
    /\ F32Eq(s.min, t.min) /\ F32Eq(s.max, t.max)
    /\ F32Eq(s.sum, t.sum) /\ F32Eq(s.count, t.count)

SameTable(t, u) == DOMAIN t = DOMAIN u /\ \A k \in DOMAIN t : SameStats(t[k], u[k])

(* C13: merging the shard tables in any order gives the table mergeResults
   gave: the same keys and, per key, the same min, max, sum and count. *)
C13_MergeOrderIndependent ==
    (AllAggregated /\ ret.merged = Len(arg)) =>
        \A p \in Perms(Len(arg)) :
            SameTable(mergeResults([i \in 1..Len(arg) |-> ret.tables[p[i]]]), ret.res)

(* C14: once the file is mapped, every way out of the program releases the
   mapping, a run that started its workers releases it only after all of
   them, the merge and the printing are done, and a released mapping stays
   released. *)
C14_MappingReleasedOnce ==
    /\ (pc \in {"exited", "crashed"} /\ mmapped # "none") => mmapped = "released"
    /\ (mmapped = "released" /\ \E w \in Workers : wpc[w] # "unborn")
          => /\ \A w \in Workers : wpc[w] = "done"
             /\ mi = numWorkers
             /\ output # <<>>

(* setupMmap has failed: main has logged run's error *)
SetupFailed == \E j \in 1..Len(logged) : logged[j] = "setting up mmap"

(* C15: when opening, statting or mapping the file fails, the process has
   exited with status 1 with no chunk planned, no worker started, no record
   parsed, nothing merged and nothing printed. *)
C15_SetupFailureAborts ==
    SetupFailed =>
        /\ pc = "exited" /\ exitCode = 1
        /\ mmapped = "none"
        /\ ci = 0 /\ nextStart = 0
        /\ \A w \in Workers :
              /\ chunks[w] = [start |-> 0, end |-> 0]
              /\ wpc[w] = "unborn"
              /\ handled[w] = <<>> /\ resultses[w] = <<>>
        /\ mi = 0 /\ final = <<>>
        /\ output = <<>>

(* the mapping of a file that holds records has failed *)
C15_Witness == SetupFailed /\ exitCode = 1 /\ Len(file) > 0

(* the float32 nearest to t tenths: what the decimal t/10 is as a float32 *)
F32OfTenths(t) == IF t = 0 THEN F32Zero(FALSE) ELSE F32OfRatio(t < 0, Abs(t), 10, 0)

(* C16: parseFloat of a value of the grammar returns the number the value
   denotes: the float32 nearest to sign * (integer part + digit / 10). *)
C16_ParseFloatDenotes ==
    (ret.step = "parsed" /\ WellFormedValue(ret.sp.val)) =>
        /\ ret.pf.panic = ""
        /\ F32Eq(ret.pf.temp, F32OfTenths(Denote(ret.sp.val)))

(* "-99.9" has been decoded, to a value below -99.8 *)
C16_Witness ==
    /\ ret.step = "parsed"
    /\ ret.sp.val = <<MINUS, 57, 57, DOT, 57>>
    /\ F32Less(ret.pf.temp, F32OfTenths(-998))

(* a name without ';' and without a line terminator, 1 to 100 bytes *)
ValidName(n) ==
    /\ Len(n) \in 1..100
    /\ \A j \in 1..Len(n) : n[j] # SEMI /\ n[j] # NL

(* C17: on a valid line the probing splitOnSemi returns the key and value
   bytes that the scan for the first ';' returns, and indexes no byte
   outside the line. *)
C17_ProbingSplitAgrees ==
    (ret.step # "line" /\ HasSemi(arg) /\ ValidName(NameOf(arg))
            /\ WellFormedValue(ValueOf(arg))) =>
        /\ ret.sp.panic = ""
        /\ ret.sp.key = splitOnSemi(arg).key /\ ret.sp.key = NameOf(arg)
        /\ ret.sp.val = splitOnSemi(arg).val /\ ret.sp.val = ValueOf(arg)

(* a line with a value of the longest shape, -dd.d, behind the shortest
   name has been split at the third probe *)
C17_Witness ==
    /\ ret.step = "split"
    /\ Len(arg) = 7
    /\ WellFormedValue(ValueOf(arg)) /\ Len(ValueOf(arg)) = 5
    /\ ret.sp.panic = ""
    /\ Len(ret.sp.key) = 1

RECURSIVE EntriesOf(_)
(* the pieces of bs that a ',' ends *)
EntriesOf(bs) ==
    LET i == IndexOfFrom(bs, COMMA, 0) IN
    IF i < 0 THEN <<>>
    ELSE <<SubSeq(bs, 1, i)>> \o EntriesOf(SubSeq(bs, i + 2, Len(bs)))

(* the names printed, in the order printed: what stands before the '=' of
   each entry between the braces *)
PrintedNames(out) ==
    LET es == EntriesOf(SubSeq(out, 2, Len(out) - 2))
    IN  [j \in 1..Len(es) |-> SubSeq(es[j], 1, IndexOfFrom(es[j], EQUALS, 0))]

(* a before b in byte-wise lexicographic order, bytes as unsigned numbers *)
ByteLess(a, b) ==
    \E i \in 1..Len(b) :
        /\ \A j \in 1..(i - 1) : j <= Len(a) /\ a[j] = b[j]
        /\ (i > Len(a) \/ a[i] < b[i])

(* C18: the output names every key of the final table exactly once, in
   strictly ascending byte-wise order; a key that starts with a non-ASCII
   byte comes after every key that starts with an ASCII byte. *)
C18_KeysSortedByBytes ==
    output # <<>> =>
        LET ns == PrintedNames(output) IN
        /\ { ns[j] : j \in 1..Len(ns) } = DOMAIN final
        /\ Len(ns) = Cardinality(DOMAIN final)
        /\ \A i \in 1..(Len(ns) - 1) : ByteLess(ns[i], ns[i + 1])
        /\ \A i, j \in 1..Len(ns) :
              (ns[i] # <<>> /\ ns[j] # <<>> /\ ns[i][1] >= 128 /\ ns[j][1] < 128)
                  => j < i

(* a summary of three keys has been printed, one of them starting with a
   non-ASCII byte, one holding such a byte after an ASCII one *)
C18_Witness ==
    /\ output # <<>>
    /\ Cardinality(DOMAIN final) = 3
    /\ \E k \in DOMAIN final : k[1] >= 128
    /\ \E k \in DOMAIN final : k[1] < 128 /\ \E j \in 2..Len(k) : k[j] >= 128

(* the float32 quotient printRes prints as the average never leaves
   [min, max], and at least one record has been counted *)
WithinExtremes(st) ==
    LET avg == F32Div(st.sum, st.count) IN
    /\ ~F32Less(st.count, F32OfInt(1))
    /\ ~F32Less(avg, st.min)
    /\ ~F32Less(st.max, avg)

(* C19: in every shard table after each record, and in the table being
   merged, every key has count >= 1 and min <= sum/count <= max. *)
C19_AverageWithinExtremes ==
    /\ \A i \in 1..Len(arg) : \A k \in DOMAIN ret.tables[i] :
          WithinExtremes(ret.tables[i][k])
    /\ \A k \in DOMAIN ret.res : WithinExtremes(ret.res[k])

RECURSIVE SumTenths(_)
(* the exact sum, in tenths, of the values of a sequence of records *)
SumTenths(vs) == IF vs = <<>> THEN 0 ELSE Denote(Head(vs)) + SumTenths(Tail(vs))

RECURSIVE Flatten(_)
Flatten(ss) == IF ss = <<>> THEN <<>> ELSE Head(ss) \o Flatten(Tail(ss))

RECURSIVE AfterLast(_, _)
(* what follows the last byte b of bs *)
AfterLast(bs, b) ==
    LET i == IndexOfFrom(bs, b, 0) IN
    IF i < 0 THEN bs ELSE AfterLast(SubSeq(bs, i + 2, Len(bs)), b)

(* the average printed for the one station: the last field of its entry *)
PrintedAvg == AfterLast(EntriesOf(SubSeq(ret.out, 2, Len(ret.out) - 2))[1], SLASH)

(* C20: when the exact average of the station's values lies half-way
   between two one-decimal numbers, the average printed is the larger of
   the two. *)
C20_TiesRoundUp ==
    LET S == SumTenths(Flatten(arg))
        n == Len(Flatten(arg))
    IN  (ret.out # <<>> /\ n > 0 /\ (2 * S) % (2 * n) = n) =>
            LET c == (S \div n) + 1
            IN  PrintedAvg \in (IF c = 0 THEN {FmtSigned(FALSE, 0), FmtSigned(TRUE, 0)}
                                         ELSE {FmtTenths(c)})

----------------------------------------------------------------------------
(* C21: mergeResults leaves every shard table unchanged: no step of the
   merge changes the keys of a shard table or the min, max, sum or count
   of a stats object a shard table holds. *)
C21_ShardTablesUnchanged ==
    [][pc = "merge" =>
          /\ resultses' = resultses
          /\ \A w \in Workers : \A k \in DOMAIN resultses[w] :
                Deref(heap', resultses[w][k]) = Deref(heap, resultses[w][k])]_vars

(* the byte indexes the planner's backward scan reads for the chunk it is
   planning: from start + L/W down to the first '\n' it meets, or to
   start + 1 *)
PlannerReads ==
    LET start == nextStart
        theoreticalEnd == start + (Len(file) \div numWorkers)
    IN  IF pc = "plan" /\ ci < numWorkers - 1
        THEN { i \in (start + 1)..theoreticalEnd :
                  \A j \in (i + 1)..theoreticalEnd : j >= Len(file) \/ At(file, j) # NL }
        ELSE {}

(* C22: every byte index the chunk planner reads while scanning backward
   from start_i + L/W lies in [0, L), and every chunk slice taken for a
   worker satisfies 0 <= start <= end <= L. *)
C22_PlannerInRange ==
    /\ \A i \in PlannerReads : 0 <= i /\ i < Len(file)
    /\ Planned => \A w \in Workers :
          /\ 0 <= chunks[w].start
          /\ chunks[w].start <= chunks[w].end
          /\ chunks[w].end <= Len(file)

----------------------------------------------------------------------------
(* the lines the reader goroutine has scanned: the tokens that start
   before the scanner's position *)
ScannedLines == { o \in RecordStarts : o < reader.pos }

(* the sends that carried the line at offset o: <<send, place in its batch>> *)
SentIn(o) ==
    { e \in (1..Len(lineses.sent)) \X (1..lineBufSize) :
         /\ e[2] <= Len(lineses.sent[e[1]].batch)
         /\ lineses.sent[e[1]].batch[e[2]] = o }

(* wg.Wait() has returned *)
ChanWaited == pc \in {"merge", "printed", "exited"}

(* C23: every line the reader goroutine scans is sent in exactly one
   batch, received by exactly one worker and aggregated exactly once, by
   that worker: no line is ever sent or aggregated twice, and once all
   goroutines have finished every scanned line has been sent and
   aggregated, the lines of the last, shorter batch included. *)
C23_EveryLineAggregatedOnce ==
    /\ \A o \in RecordStarts :
          /\ Cardinality(SentIn(o)) <= 1
          /\ Cardinality(HandledAt(o)) <= 1
    /\ ChanWaited =>
          \A o \in ScannedLines :
             /\ Cardinality(SentIn(o)) = 1
             /\ Cardinality(HandledAt(o)) = 1
             /\ \A e \in SentIn(o) : \A h \in HandledAt(o) :
                   lineses.sent[e[1]].to = h[1]

(* the channel variant has come to its end: the channel is closed, every
   worker has left its receive loop, wg.Wait() has returned, all shard
   tables are merged, the result is printed and main has returned *)
ChanFinished ==
    /\ lineses.closed
    /\ reader.pc = "done"
    /\ \A w \in Workers : wpc[w] = "done"
    /\ wg = 0
    /\ mi = numWorkers
    /\ output # <<>>
    /\ pc = "exited"
    /\ exitCode = 0

(* every line fits the scanner's buffer, as every valid line (at most 100
   bytes of name, ';' and 5 bytes of value) fits the source's 64 MiB; the
   model's buffer is scaled down *)
LinesFitScanner == \A o \in RecordStarts : Len(LineAt(o)) < MaxTokenSize

(* C24: in the channel-based variant, for every valid input whose file the
   reader has opened and under fair scheduling, the run comes to its end:
   the reader closes the channel, every worker leaves its receive loop,
   wg.Wait returns, the tables are merged and the result printed; each
   table is merged once (the merge never starts over and the merged table
   is left alone) and the output is written once. *)
C24_ChanTerminates ==
    /\ (ValidInput /\ LinesFitScanner /\ reader.pc = "scan") ~> ChanFinished
    /\ [][/\ mi' >= mi
          /\ Merged => final' = final
          /\ output # <<>> => output' = output]_vars

(* a run over six valid lines came to its end after two workers had each
   received a batch *)
C24_Witness ==
    /\ variant = "chan"
    /\ ValidInput
    /\ LinesFitScanner
    /\ ChanFinished
    /\ \E a, b \in 1..Len(lineses.sent) : lineses.sent[a].to # lineses.sent[b].to

====
